---- MODULE Spec2Model ----
(***************************************************************************)
(* A model of DQNAgent.py: the ReplayMemory, the frame stack of the Runner, *)
(* and the episode loops of the Trainer and of the Tester.                  *)
(*                                                                          *)
(* Network parameters are abstracted to version numbers: every optimizer    *)
(* step yields a new version of the online parameters.  Frames are          *)
(* identified by <<episode, index>>.  The exploration rate is an exact      *)
(* rational [num, den].                                                     *)
(***************************************************************************)
EXTENDS Integers, Sequences, FiniteSets, TLC

\* ------------------------------------------------------------------ bounds
MaxFrameStack == 2
MaxEpSteps == 4
MaxEpisodes == 2
MaxMemSize == 3
MaxSamplesPre == 2
MaxBatch == 2
ResetTarget == 2
SaveFreq == 3
FinalExpFrame == 4
MaxCapacity == 5
MaxPushes == 7
LongFrameStack == 4
LongEpSteps == 10
MaxEpsFrame == 6
MaxEpsSteps == 12

\* ------------------------------------------------------- program constants
LogEvery == 1000
TesterMaxEpSteps == 1000000

\* The action identifiers of the environment's action set, and the value the
\* loop passes to env.act on a warm-up step (Python's None).
ActionSet == {1, 2}
NoOp == 0

\* The raw rewards env.act may return: a penalty or a bonus on the step that
\* ends the game, a point otherwise.
RawRewards(over) == IF over THEN {-5, 5} ELSE {1}

VARIABLES
    runner,         \* "Trainer", "Tester" or "Memory" (a bare ReplayMemory)
    cfg,            \* the constructor arguments
    memory,         \* ReplayMemory.memory
    frame_stacker,  \* Runner.frame_stacker
    total_steps,    \* Runner.total_steps
    steps,          \* local steps of episode()
    rewards,        \* local rewards of episode()
    reward_per_ep,  \* Trainer.reward_per_ep
    gameOver,       \* env.game_over()
    eps,            \* agent.eps, a rational [num, den]
    q_network,      \* version of the online parameters
    q_target,       \* version of the target parameters
    pc,             \* "idle", "loop" or "crashed"
    error,          \* the exception that ended the run, or "none"
    episode,        \* number of episodes started
    last,           \* what the last loop iteration did
    epPushes,       \* pushes of the current episode
    pushed,         \* every transition pushed on the bare memory, in push order
    synced_from,    \* the online version copied by the last update_target
    batch           \* the last value returned by sample

vars == <<runner, cfg, memory, frame_stacker, total_steps, steps, rewards,
          reward_per_ep, gameOver, eps, q_network, q_target, pc, error,
          episode, last, epPushes, pushed, synced_from, batch>>

\* ------------------------------------------------------------- helpers
Min(a, b) == IF a < b THEN a ELSE b
Max(a, b) == IF a > b THEN a ELSE b

RECURSIVE SeqSum(_)
SeqSum(s) == IF s = <<>> THEN 0 ELSE Head(s) + SeqSum(Tail(s))

\* The last n elements of s.
LastN(s, n) == SubSeq(s, Len(s) - n + 1, Len(s))

\* collections.deque(maxlen=maxlen).append(x): when the deque is full the
\* element at the left end is discarded.
DequeAppendDropNewest(d, x, maxlen) ==
    IF Len(d) >= maxlen THEN d ELSE Append(d, x)

DequeAppend(d, x, maxlen) ==
    LET a == Append(d, x)
    IN  IF Len(a) > maxlen THEN Tail(a) ELSE a

\* ------------------------------------------------------- ReplayMemory
Transition(state, action, next_state, reward, done) ==
    [state |-> state, action |-> action, next_state |-> next_state,
     reward |-> reward, done |-> done]

\* ReplayMemory.push
MemoryPushResetWhenFull(mem, t) ==
    IF Len(mem) >= cfg.memory_size THEN <<t>> ELSE Append(mem, t)

MemoryPush(mem, t) == DequeAppend(mem, t, cfg.memory_size)

\* ReplayMemory.__len__
MemoryLen(mem) == Len(mem)

\* The index sequences random.sample(list(memory), k) may draw: k distinct
\* positions of the list, in any order.
SampleIndexesWithReplacement(n, k) == [1..k -> 1..n]

SampleIndexes(n, k) ==
    {ix \in [1..k -> 1..n] : \A i, j \in 1..k : i # j => ix[i] # ix[j]}

\* Transition(*zip(*batch)): the batch transposed into five columns.
Columns(b) ==
    [state      |-> [i \in 1..Len(b) |-> b[i].state],
     action     |-> [i \in 1..Len(b) |-> b[i].action],
     next_state |-> [i \in 1..Len(b) |-> b[i].next_state],
     reward     |-> [i \in 1..Len(b) |-> b[i].reward],
     done       |-> [i \in 1..Len(b) |-> b[i].done]]

\* The exception ReplayMemory.sample raises for this memory length and batch
\* size, or "none": random.sample rejects k < 0 and k > n; with k = 0 the zip
\* yields no column and the Transition constructor lacks its arguments.
SampleError(n, k) ==
    IF k < 0 \/ k > n THEN "ValueError"
    ELSE IF k = 0 THEN "TypeError"
    ELSE "none"

\* The values ReplayMemory.sample may return.
SampleResults(mem, k) ==
    {Columns([i \in 1..k |-> mem[ix[i]]]) : ix \in SampleIndexes(Len(mem), k)}

\* The memory after ReplayMemory.sample: the sample is drawn from a copy.
MemoryAfterSampleConsume(mem, b) == SubSeq(mem, 1, Len(mem) - Len(b.state))

MemoryAfterSample(mem, b) == mem

\* ------------------------------------------------------------- Runner
Frame(ep, i) == <<ep, i>>

\* frame_stacker = deque(maxlen=frame_stack); frame_stacker.append(state)
FrameStackerAppendShort(stk, f) == DequeAppend(stk, f, cfg.frame_stack - 1)

FrameStackerAppend(stk, f) == DequeAppend(stk, f, cfg.frame_stack)

\* The assertion of Runner.get_recent_states.
StackFilled(stk) == Len(stk) = cfg.frame_stack

\* "Need to fill frame stacker": the step passes None to env.act.
IsWarmup(s) == s < cfg.frame_stack

\* The step records a transition.
ShouldRecordEarly(s) == s > cfg.frame_stack - 2

ShouldRecordFromFirstAction(s) == s >= cfg.frame_stack

ShouldRecord(s) == s > cfg.frame_stack

\* np.clip(reward, lo, hi)
ClipUpperOnly(r, lo, hi) == Min(r, hi)

Clip(r, lo, hi) == Min(Max(r, lo), hi)

\* The gate in front of the learning step: TRUE when the step is skipped.
SkipLearning(mem) == MemoryLen(mem) <= cfg.num_samples_pre

\* Trainer.set_eps, as an exact rational.
SetEpsNoFloor(total) ==
    LET F == cfg.final_exp_frame
    IN  [num |-> F + 99 * (F - total), den |-> 100 * F]

SetEpsStale(total) ==
    LET F == cfg.final_exp_frame
    IN  [num |-> Max(F, F + 99 * (F - (total - 1))), den |-> 100 * F]

SetEps(total) ==
    LET F == cfg.final_exp_frame
    IN  [num |-> Max(F, F + 99 * (F - total)), den |-> 100 * F]

\* optimizer.step(): the optimizer holds the parameters of q_network.
OptimizerStepOnTarget(qn, qt) == [q_network |-> qn, q_target |-> qt + 1]

OptimizerStep(qn, qt) == [q_network |-> qn + 1, q_target |-> qt]

\* DQNAgent.update_target: the target's parameters after the copy.
UpdateTarget(qn, qt) == qn

\* "sync up the target to our current q network"
TargetDueBeforeIncrement(total) == (total - 1) % cfg.reset_target = 0

TargetDue(total) == total % cfg.reset_target = 0

SaveDue(total) == total % cfg.save_freq = 0

NoLast ==
    [op |-> "none", k |-> 0, recorded |-> FALSE, gate |-> FALSE,
     learned |-> FALSE, synced |-> FALSE, saved |-> FALSE, raw |-> 0]

NoBatch == Columns(<<>>)

InitEps == [num |-> 1, den |-> 1]
InitOnline == 1
InitTarget == 0

\* The state as a record, so that a step can be written as a chain of
\* updates that stops where an exception is raised.
Cur ==
    [memory |-> memory, frame_stacker |-> frame_stacker,
     total_steps |-> total_steps, steps |-> steps, rewards |-> rewards,
     reward_per_ep |-> reward_per_ep, gameOver |-> gameOver, eps |-> eps,
     q_network |-> q_network, q_target |-> q_target, synced_from |-> synced_from,
     pc |-> pc, error |-> error, last |-> last, epPushes |-> epPushes,
     pushed |-> pushed, batch |-> batch]

Commit(s) ==
    /\ memory' = s.memory
    /\ frame_stacker' = s.frame_stacker
    /\ total_steps' = s.total_steps
    /\ steps' = s.steps
    /\ rewards' = s.rewards
    /\ reward_per_ep' = s.reward_per_ep
    /\ gameOver' = s.gameOver
    /\ eps' = s.eps
    /\ q_network' = s.q_network
    /\ q_target' = s.q_target
    /\ synced_from' = s.synced_from
    /\ pc' = s.pc
    /\ error' = s.error
    /\ last' = s.last
    /\ epPushes' = s.epPushes
    /\ pushed' = s.pushed
    /\ batch' = s.batch

Raise(s, e) == [s EXCEPT !.pc = "crashed", !.error = e]

\* ------------------------------------------------------------- Trainer
\* Trainer.episode, up to the loop: the resets and the first frame.
EpisodeReset ==
    /\ pc = "idle"
    /\ episode < MaxEpisodes
    /\ episode' = episode + 1
    /\ steps' = 0
    /\ gameOver' = FALSE
    /\ frame_stacker' = FrameStackerAppend(<<>>, Frame(episode + 1, 0))
    /\ rewards' = <<>>
    /\ pc' = "loop"
    /\ epPushes' = 0
    /\ last' = [NoLast EXCEPT !.op = "reset"]
    /\ UNCHANGED <<runner, cfg, memory, total_steps, reward_per_ep, eps,
                   q_network, q_target, error, pushed, synced_from, batch>>

TrainReset == runner = "Trainer" /\ EpisodeReset

\* Lines 192-196 of the loop body: the environment acts, the reward is
\* clipped, the new frame is stacked.
Act(s, raw, over) ==
    [s EXCEPT !.gameOver = over,
              !.rewards = Append(s.rewards, Clip(raw, -1, 1)),
              !.frame_stacker =
                  FrameStackerAppend(s.frame_stacker, Frame(episode, s.steps + 1))]

\* Lines 197-201: the transition is pushed and the counters advance.
RecordStateAfterAct(s, psi_state, action, raw, over) ==
    LET rec == ShouldRecord(s.steps)
        t   == Transition(s.frame_stacker, action, s.frame_stacker,
                          Clip(raw, -1, 1), over)
    IN  [s EXCEPT !.memory = IF rec THEN MemoryPush(s.memory, t) ELSE s.memory,
                  !.epPushes = IF rec THEN s.epPushes + 1 ELSE s.epPushes,
                  !.last.recorded = rec,
                  !.total_steps = s.total_steps + 1,
                  !.steps = s.steps + 1]

Record(s, psi_state, action, raw, over) ==
    LET rec == ShouldRecord(s.steps)
        t   == Transition(psi_state, action, s.frame_stacker, Clip(raw, -1, 1), over)
    IN  [s EXCEPT !.memory = IF rec THEN MemoryPush(s.memory, t) ELSE s.memory,
                  !.epPushes = IF rec THEN s.epPushes + 1 ELSE s.epPushes,
                  !.last.recorded = rec,
                  !.total_steps = s.total_steps + 1,
                  !.steps = s.steps + 1]

\* Lines 206-214: the loss consumes the batch; optimizer step and the target
\* synchronization.
Learn(s, b) ==
    LET o    == OptimizerStep(s.q_network, s.q_target)
        sync == TargetDue(s.total_steps)
    IN  [s EXCEPT !.memory = MemoryAfterSample(s.memory, b),
                  !.q_network = o.q_network,
                  !.q_target = IF sync THEN UpdateTarget(o.q_network, o.q_target)
                               ELSE o.q_target,
                  !.synced_from = IF sync THEN o.q_network ELSE s.synced_from,
                  !.last.learned = TRUE,
                  !.last.synced = sync,
                  !.reward_per_ep = IF s.total_steps % LogEvery = 0 THEN <<>>
                                    ELSE s.reward_per_ep]

\* One iteration of the loop of Trainer.episode.
TrainStep ==
    /\ runner = "Trainer"
    /\ pc = "loop"
    /\ ~gameOver
    /\ steps < cfg.max_ep_steps
    /\ UNCHANGED <<runner, cfg, episode>>
    /\ \E a \in IF IsWarmup(steps) THEN {NoOp} ELSE ActionSet, over \in BOOLEAN :
      \E raw \in RawRewards(over) :
        LET warm      == IsWarmup(steps)
            action    == a
            psi_state == IF warm THEN <<>> ELSE frame_stacker
            s0 == [Cur EXCEPT !.last = [NoLast EXCEPT !.op = "step",
                                                      !.k = cfg.batch_size,
                                                      !.raw = raw]]
            s1 == Act(s0, raw, over)
            s2 == Record(s1, psi_state, action, raw, over)
            s3 == [s2 EXCEPT !.eps = SetEps(s2.total_steps), !.last.gate = TRUE]
            serr == SampleError(MemoryLen(s3.memory), cfg.batch_size)
        IN  IF ~warm /\ ~StackFilled(frame_stacker)
              THEN Commit(Raise(s0, "AssertionError"))
            ELSE IF ShouldRecord(steps) /\ ~StackFilled(s1.frame_stacker)
              THEN Commit(Raise(s1, "AssertionError"))
            ELSE IF SkipLearning(s2.memory)
              THEN Commit(s2)
            ELSE IF serr # "none"
              THEN Commit(Raise(s3, serr))
            ELSE \E b \in SampleResults(s3.memory, cfg.batch_size) :
                   LET s4 == Learn(s3, b)
                   IN  IF ~SaveDue(s4.total_steps) THEN Commit(s4)
                       ELSE \E fsOk \in BOOLEAN :
                              IF fsOk THEN Commit([s4 EXCEPT !.last.saved = TRUE])
                              ELSE Commit(Raise(s4, "OSError"))

\* The loop of Trainer.episode has ended: the episode's reward is logged.
TrainEnd ==
    /\ runner = "Trainer"
    /\ pc = "loop"
    /\ gameOver \/ steps >= cfg.max_ep_steps
    /\ reward_per_ep' = Append(reward_per_ep, SeqSum(rewards))
    /\ pc' = "idle"
    /\ last' = [NoLast EXCEPT !.op = "end"]
    /\ UNCHANGED <<runner, cfg, memory, frame_stacker, total_steps, steps,
                   rewards, gameOver, eps, q_network, q_target, error, episode,
                   epPushes, pushed, synced_from, batch>>

\* ------------------------------------------------------------- Tester
TestReset == runner = "Tester" /\ EpisodeReset

\* Lines 280-281: the counters advance; the Tester does nothing else.
TestAdvanceLearning(s) ==
    LET o == OptimizerStep(s.q_network, s.q_target)
    IN  [s EXCEPT !.total_steps = s.total_steps + 1,
                  !.steps = s.steps + 1,
                  !.eps = [num |-> 1, den |-> 100],
                  !.q_network = o.q_network,
                  !.last.learned = TRUE]

TestAdvance(s) ==
    [s EXCEPT !.total_steps = s.total_steps + 1,
              !.steps = s.steps + 1]

\* One iteration of the loop of Tester.episode.  The environment ends the
\* game within MaxEpSteps steps.
TestStep ==
    /\ runner = "Tester"
    /\ pc = "loop"
    /\ ~gameOver
    /\ steps < cfg.max_ep_steps
    /\ UNCHANGED <<runner, cfg, episode>>
    /\ \E a \in IF IsWarmup(steps) THEN {NoOp} ELSE ActionSet, over \in BOOLEAN :
      \E raw \in RawRewards(over) :
        /\ steps + 1 >= MaxEpSteps => over
        /\ LET warm   == IsWarmup(steps)
               action == a
               s0 == [Cur EXCEPT !.last = [NoLast EXCEPT !.op = "step",
                                                         !.raw = raw]]
               s1 == Act(s0, raw, over)
               s2 == TestAdvance(s1)
           IN  IF ~warm /\ ~StackFilled(frame_stacker)
                 THEN Commit(Raise(s0, "AssertionError"))
               ELSE Commit(s2)

\* The loop of Tester.episode has ended: the episode's reward is printed.
TestEnd ==
    /\ runner = "Tester"
    /\ pc = "loop"
    /\ gameOver \/ steps >= cfg.max_ep_steps
    /\ pc' = "idle"
    /\ last' = [NoLast EXCEPT !.op = "end"]
    /\ UNCHANGED <<runner, cfg, memory, frame_stacker, total_steps, steps,
                   rewards, reward_per_ep, gameOver, eps, q_network, q_target,
                   error, episode, epPushes, pushed, synced_from, batch>>

\* ------------------------------------------- a ReplayMemory used directly
\* memory.push(*args) with the next of a series of distinct transitions.
MemPush ==
    /\ runner = "Memory"
    /\ Len(pushed) < MaxPushes
    /\ LET n == Len(pushed)
           t == Transition(<<Frame(0, n)>>, 1 + (n % 2), <<Frame(0, n + 1)>>, 1, FALSE)
       IN  /\ memory' = MemoryPush(memory, t)
           /\ pushed' = Append(pushed, t)
    /\ batch' = NoBatch
    /\ error' = "none"
    /\ last' = [NoLast EXCEPT !.op = "push"]
    /\ UNCHANGED <<runner, cfg, frame_stacker, total_steps, steps, rewards,
                   reward_per_ep, gameOver, eps, q_network, q_target, pc,
                   episode, epPushes, synced_from>>

\* The batch sizes tried on the bare memory.
SampleSizes == -1..MaxBatch

\* memory.sample(k); the caller catches the exception, if any.
MemSample ==
    /\ runner = "Memory"
    /\ \E k \in SampleSizes :
        /\ last' = [NoLast EXCEPT !.op = "sample", !.k = k]
        /\ error' = SampleError(MemoryLen(memory), k)
        /\ IF SampleError(MemoryLen(memory), k) # "none"
             THEN batch' = NoBatch /\ memory' = memory
             ELSE \E b \in SampleResults(memory, k) :
                    batch' = b /\ memory' = MemoryAfterSample(memory, b)
    /\ UNCHANGED <<runner, cfg, frame_stacker, total_steps, steps, rewards,
                   reward_per_ep, gameOver, eps, q_network, q_target, pc,
                   episode, epPushes, pushed, synced_from>>

\* ------------------------------------------- set_eps called directly
\* total_steps += 1
EpsTick ==
    /\ runner = "Eps"
    /\ total_steps < MaxEpsSteps
    /\ total_steps' = total_steps + 1
    /\ last' = [NoLast EXCEPT !.op = "tick"]
    /\ UNCHANGED <<runner, cfg, memory, frame_stacker, steps, rewards,
                   reward_per_ep, gameOver, eps, q_network, q_target, pc, error,
                   episode, epPushes, pushed, synced_from, batch>>

\* self.set_eps() at the current total_steps.
EpsSet ==
    /\ runner = "Eps"
    /\ eps' = SetEps(total_steps)
    /\ last' = [NoLast EXCEPT !.op = "set_eps", !.k = total_steps]
    /\ UNCHANGED <<runner, cfg, memory, frame_stacker, total_steps, steps,
                   rewards, reward_per_ep, gameOver, q_network, q_target, pc,
                   error, episode, epPushes, pushed, synced_from, batch>>

\* ------------------------------------------------------ specifications
TrainerConfigs ==
    [frame_stack : {1, MaxFrameStack}, max_ep_steps : {MaxEpSteps},
     memory_size : {1, 2, MaxMemSize}, num_samples_pre : {0, 1, MaxSamplesPre},
     batch_size : {1, MaxBatch}, reset_target : {ResetTarget},
     save_freq : {SaveFreq}, final_exp_frame : {FinalExpFrame}]

TesterConfigs ==
    [frame_stack : {1, MaxFrameStack}, max_ep_steps : {TesterMaxEpSteps},
     memory_size : {0}, num_samples_pre : {0}, batch_size : {0},
     reset_target : {0}, save_freq : {0}, final_exp_frame : {0}]

InitCommon ==
    /\ memory = <<>>
    /\ frame_stacker = <<>>
    /\ total_steps = 0
    /\ steps = 0
    /\ rewards = <<>>
    /\ reward_per_ep = <<>>
    /\ gameOver = FALSE
    /\ q_network = InitOnline
    /\ q_target = InitTarget
    /\ synced_from = InitTarget
    /\ pc = "idle"
    /\ error = "none"
    /\ episode = 0
    /\ last = NoLast
    /\ epPushes = 0
    /\ pushed = <<>>
    /\ batch = NoBatch

Init ==
    /\ InitCommon
    /\ \/ runner = "Trainer" /\ cfg \in TrainerConfigs /\ eps = InitEps
       \/ runner = "Tester" /\ cfg \in TesterConfigs
            /\ eps \in {InitEps, [num |-> 1, den |-> 100]}

MemoryConfigs ==
    [frame_stack : {0}, max_ep_steps : {0}, memory_size : 0..MaxCapacity,
     num_samples_pre : {0}, batch_size : {0}, reset_target : {0},
     save_freq : {0}, final_exp_frame : {0}]

InitMem ==
    /\ InitCommon
    /\ runner = "Memory"
    /\ cfg \in MemoryConfigs
    /\ eps = InitEps

NextMem ==
    \/ MemPush
    \/ MemSample

SpecMem == InitMem /\ [][NextMem]_vars

Next ==
    \/ TrainReset
    \/ TrainStep
    \/ TrainEnd
    \/ TestReset
    \/ TestStep
    \/ TestEnd

Spec == Init /\ [][Next]_vars

EpsConfigs ==
    [frame_stack : {0}, max_ep_steps : {0}, memory_size : {0},
     num_samples_pre : {0}, batch_size : {0}, reset_target : {0},
     save_freq : {0}, final_exp_frame : 1..MaxEpsFrame]

InitEpsCalls ==
    /\ InitCommon
    /\ runner = "Eps"
    /\ cfg \in EpsConfigs
    /\ eps = InitEps

NextEps ==
    \/ EpsTick
    \/ EpsSet

SpecEps == InitEpsCalls /\ [][NextEps]_vars

\* Training runs with long episodes and a small replay memory.
LongConfigs ==
    [frame_stack : {1, LongFrameStack}, max_ep_steps : {LongEpSteps},
     memory_size : {1, 2}, num_samples_pre : {0, 1},
     batch_size : {1}, reset_target : {ResetTarget},
     save_freq : {SaveFreq}, final_exp_frame : {FinalExpFrame}]

InitLong ==
    /\ InitCommon
    /\ runner = "Trainer"
    /\ cfg \in LongConfigs
    /\ eps = InitEps

NextTrain ==
    \/ TrainReset
    \/ TrainStep
    \/ TrainEnd

SpecLong == InitLong /\ [][NextTrain]_vars

\* ================================================================ claims

\* The rows of a batch returned by sample, as transitions.
BatchRows(b) ==
    [i \in 1..Len(b.state) |->
        Transition(b.state[i], b.action[i], b.next_state[i], b.reward[i], b.done[i])]

\* C1: after n pushes on a ReplayMemory of capacity C the memory has
\* min(n, C) entries, and they are the min(n, C) most recently pushed
\* transitions in push order.
C1_FifoEviction ==
    runner = "Memory" =>
        /\ Len(memory) = Min(Len(pushed), cfg.memory_size)
        /\ memory = LastN(pushed, Min(Len(pushed), cfg.memory_size))

\* Capacity 5, 7 pushes: the 3rd to the 7th pushed transitions remain.
C1_Witness ==
    /\ runner = "Memory"
    /\ cfg.memory_size = 5
    /\ Len(pushed) = 7
    /\ memory = SubSeq(pushed, 3, 7)

\* C2 as stated: sample(batchSize) returns batchSize transitions of distinct
\* entries whenever len(memory) >= batchSize, and raises whenever
\* len(memory) < batchSize.
C2_Original ==
    last.op = "sample" =>
        /\ Len(memory) >= last.k =>
              error = "none" /\ Len(BatchRows(batch)) = last.k
        /\ Len(memory) < last.k => error # "none"

\* C2, amended: sample(batchSize) returns batchSize transitions taken from
\* batchSize distinct entries of the memory whenever
\* 1 <= batchSize <= len(memory), and raises otherwise.
C2_SampleDistinct ==
    last.op = "sample" =>
        IF 1 <= last.k /\ last.k <= Len(memory)
        THEN /\ error = "none"
             /\ Len(BatchRows(batch)) = last.k
             /\ \E ix \in [1..last.k -> 1..Len(memory)] :
                   /\ \A i, j \in 1..last.k : ix[i] = ix[j] => i = j
                   /\ \A i \in 1..last.k : BatchRows(batch)[i] = memory[ix[i]]
        ELSE error # "none" /\ batch = NoBatch

C2_Witness ==
    /\ last.op = "sample"
    /\ last.k = 2
    /\ Len(memory) = 3
    /\ error = "none"
    /\ BatchRows(batch) = <<memory[3], memory[1]>>

\* C3: sample leaves the stored transitions and their number as they were,
\* when it returns a batch and when it raises.
C3_SampleFrame ==
    [][last'.op = "sample" => memory' = memory /\ Len(memory') = Len(memory)]_vars

C3_Witness ==
    /\ last.op = "sample"
    /\ error = "none"
    /\ Len(memory) = 2
    /\ last.k = 2

\* C4: every transition held in the replay memory of a training run has an
\* action of the action set, chosen by the policy; the no-op of the warm-up
\* steps is in no stored transition.
C4_NoWarmupAction ==
    runner = "Trainer" =>
        \A i \in 1..Len(memory) :
            memory[i].action \in ActionSet /\ memory[i].action # NoOp

C4_Witness ==
    /\ runner = "Trainer"
    /\ cfg.frame_stack = 2
    /\ last.op = "step"
    /\ last.recorded
    /\ Len(memory) = 2

\* C5: a training episode whose loop ran n steps, ended by the environment
\* or by the cap max_ep_steps, pushed exactly max(0, n - K - 1) transitions.
C5_EpisodePushes ==
    (runner = "Trainer" /\ last.op = "end") =>
        /\ gameOver \/ steps = cfg.max_ep_steps
        /\ epPushes = Max(0, steps - cfg.frame_stack - 1)

\* The environment ends the game at step 10, K = 4: 5 transitions.
C5_Witness ==
    /\ runner = "Trainer"
    /\ last.op = "end"
    /\ gameOver
    /\ cfg.frame_stack = 4
    /\ steps = 10
    /\ epPushes = 5

\* C6 as stated: on every step of a training episode the learning step is
\* skipped exactly when the memory holds fewer than numSamplesPre
\* transitions, and is performed when it holds numSamplesPre or more.
C6_GateAsStated ==
    (runner = "Trainer" /\ last.op = "step" /\ error # "AssertionError") =>
        (last.gate <=> Len(memory) >= cfg.num_samples_pre)

\* C7 as stated: for every configuration the training loop never calls
\* memory.sample(batch_size) while len(memory) < batch_size, so sample never
\* raises.
C7_NeverInsufficient ==
    (runner = "Trainer" /\ last.op = "step" /\ last.gate) =>
        Len(memory) >= cfg.batch_size /\ error # "ValueError"

\* C8: in training and in evaluation episodes get_recent_states is only
\* called with a full frame stack: its assertion never fails, and from the
\* first step that selects an action the stack holds exactly K frames.
C8_StackFilled ==
    /\ error # "AssertionError"
    /\ (pc = "loop" /\ steps >= cfg.frame_stack) => Len(frame_stacker) = cfg.frame_stack
    /\ \A i \in 1..Len(frame_stacker) : frame_stacker[i][1] = episode

C8_Witness ==
    /\ runner = "Tester"
    /\ pc = "loop"
    /\ cfg.frame_stack = 2
    /\ steps = 3
    /\ error = "none"

\* C9: in training the target network is synchronized on exactly the steps
\* on which the learning step ran and the incremented total step count is a
\* multiple of resetTarget; a step that skips the learning step never
\* synchronizes.
C9_SyncSteps ==
    [][(runner = "Trainer" /\ total_steps' = total_steps + 1) =>
          /\ (q_target' # q_target) <=>
                (q_network' # q_network /\ total_steps' % cfg.reset_target = 0)
          /\ last'.synced <=> (q_target' # q_target)
          /\ ~last'.gate => q_target' = q_target]_vars

\* A first synchronization at total step 2 * resetTarget, after a single
\* learning step: the multiple reached while collecting data synchronized
\* nothing.
C9_Witness ==
    /\ runner = "Trainer"
    /\ last.synced
    /\ total_steps = 2 * cfg.reset_target
    /\ q_network = InitOnline + 1
    /\ q_target = q_network

\* C10: the target parameters change only in update_target, which makes them
\* equal to the online parameters; an optimizer step changes the online
\* parameters only; so the target always equals the online parameters of
\* the most recent synchronization, or its own initial parameters.
C10_TargetOnlyBySync ==
    /\ [](q_target = synced_from)
    /\ [][q_target' # q_target => (last'.synced /\ q_target' = q_network')]_vars
    /\ [][(q_network' # q_network /\ ~last'.synced) => q_target' = q_target]_vars

C10_Witness ==
    /\ runner = "Trainer"
    /\ q_target # InitTarget
    /\ q_target = synced_from
    /\ q_network > q_target
    /\ last.learned
    /\ ~last.synced

\* Comparison of exact rationals with positive denominators.
RatLeq(a, b) == a.num * b.den <= b.num * a.den
RatEq(a, b) == a.num * b.den = b.num * a.den
EpsFloor == [num |-> 1, den |-> 100]

\* C11: throughout a training run eps is within [0.01, 1.0], never increases
\* from one state to the next, and stays 0.01 once it has reached 0.01.
C11_EpsMonotone ==
    /\ [](runner = "Trainer" => RatLeq(EpsFloor, eps) /\ RatLeq(eps, InitEps))
    /\ [][runner = "Trainer" =>
            /\ RatLeq(eps', eps)
            /\ RatEq(eps, EpsFloor) => RatEq(eps', EpsFloor)]_vars

\* A learning step past final_exp_frame, with eps at the floor.
C11_Witness ==
    /\ runner = "Trainer"
    /\ last.learned
    /\ total_steps > cfg.final_exp_frame
    /\ RatEq(eps, EpsFloor)
    /\ eps # InitEps

\* C12: set_eps yields max(0.01, 0.01 + 0.99 * (1 - totalSteps/finalExpFrame)):
\* 1.0 at totalSteps = 0, exactly 0.01 from totalSteps = finalExpFrame on,
\* and a value non-increasing in totalSteps.
C12_DecaySchedule ==
    (runner = "Eps" /\ last.op = "set_eps") =>
        LET t == last.k
            F == cfg.final_exp_frame
        IN  /\ IF t >= F THEN 100 * eps.num = eps.den
               ELSE 100 * F * eps.num = (100 * F - 99 * t) * eps.den
            /\ t = 0 => eps.num = eps.den
            /\ \A u \in 0..t : RatLeq(eps, SetEps(u))
            /\ \A u \in t..MaxEpsSteps : RatLeq(SetEps(u), eps)

C12_Witness ==
    /\ runner = "Eps"
    /\ last.op = "set_eps"
    /\ cfg.final_exp_frame = 4
    /\ last.k = 4
    /\ RatEq(eps, EpsFloor)

\* C13: on every step of a training episode, whatever the phase, the raw
\* reward r is replaced by max(-1, min(1, r)); every reward of a stored
\* transition and every reward summed for the episode is within [-1, 1].
C13_RewardClipped ==
    runner = "Trainer" =>
        /\ \A i \in 1..Len(rewards) : -1 <= rewards[i] /\ rewards[i] <= 1
        /\ \A i \in 1..Len(memory) : -1 <= memory[i].reward /\ memory[i].reward <= 1
        /\ (last.op = "step" /\ rewards # <<>>) =>
              rewards[Len(rewards)] = Max(-1, Min(1, last.raw))
        /\ (last.op = "step" /\ last.recorded) =>
              memory[Len(memory)].reward = Max(-1, Min(1, last.raw))
        /\ Len(rewards) = steps

\* A warm-up step on which the learning step ran and the raw reward -5 was
\* clipped to -1.
C13_Witness ==
    /\ runner = "Trainer"
    /\ last.op = "step"
    /\ last.learned
    /\ ~last.recorded
    /\ last.raw = -5
    /\ rewards[Len(rewards)] = -1

\* C14: an evaluation episode steps like a training episode (no-op while
\* steps < K, a policy action afterwards, one clipped reward and one frame
\* per step) but leaves eps, the online and the target parameters and the
\* replay memory unchanged, and samples, optimizes, synchronizes and saves
\* nothing; of the counters only steps and total_steps change.
C14_TesterFrame ==
    [][runner = "Tester" =>
          /\ UNCHANGED <<eps, q_network, q_target, synced_from, memory, batch,
                         reward_per_ep, epPushes>>
          /\ ~last'.recorded /\ ~last'.gate /\ ~last'.learned
          /\ ~last'.synced /\ ~last'.saved
          /\ last'.op = "step" =>
                /\ total_steps' = total_steps + 1
                /\ steps' = steps + 1
                /\ Len(rewards') = Len(rewards) + 1
                /\ frame_stacker'[Len(frame_stacker')] = Frame(episode, steps')]_vars

\* The Tester in its second episode, past the warm-up, with the caller's
\* eps = 0.01.
C14_Witness ==
    /\ runner = "Tester"
    /\ episode = 2
    /\ last.op = "step"
    /\ steps > cfg.frame_stack
    /\ eps = [num |-> 1, den |-> 100]
    /\ q_network = InitOnline
    /\ q_target = InitTarget

\* C15 as stated: a filesystem failure during a checkpoint save is retried
\* at most once and then skipped; it never aborts the training loop, which
\* continues with its state intact.
C15_SaveFailureSkipped ==
    runner = "Trainer" => ~(pc = "crashed" /\ error = "OSError")

\* C16 as stated: a training step records a transition whenever the frame
\* stack holds K frames both before the environment acts and after the new
\* frame is pushed; in particular the first step on which the policy
\* selects an action (steps = K) records one.
C16_RecordWhenFull ==
    [][(runner = "Trainer" /\ pc = "loop" /\ last'.op = "step"
            /\ total_steps' = total_steps + 1) =>
          /\ (Len(frame_stacker) = cfg.frame_stack
                /\ Len(frame_stacker') = cfg.frame_stack) => last'.recorded
          /\ steps = cfg.frame_stack => last'.recorded]_vars

\* C17 as stated: the learning step is performed only on active steps on
\* which a transition has just been recorded, never on a warm-up step or
\* another step that records nothing.
C17_LearnOnlyAfterRecord ==
    (runner = "Trainer" /\ last.op = "step" /\ last.gate) =>
        last.recorded /\ steps - 1 >= cfg.frame_stack

\* C18: len(memory) never decreases in a training run, and once a learning
\* step has been performed every later environment step, of the same and of
\* later episodes, performs one sample and one optimizer step.
C18_GateStaysOpen ==
    [][runner = "Trainer" =>
          /\ Len(memory') >= Len(memory)
          /\ (q_network > InitOnline /\ total_steps' = total_steps + 1) =>
                /\ last'.gate /\ last'.learned
                /\ q_network' = q_network + 1]_vars

\* A learning step on the first, warm-up, step of the second episode.
C18_Witness ==
    /\ runner = "Trainer"
    /\ episode = 2
    /\ steps = 1
    /\ last.learned
    /\ ~last.recorded
    /\ q_network >= InitOnline + 2

\* The episode whose frames make up the next_state of a transition.
EpisodeOf(t) == t.next_state[Len(t.next_state)][1]

\* C19: of two transitions recorded one after the other in one episode the
\* earlier next_state is the later state; the K frames of every stored
\* state and next_state all come from the episode that recorded the
\* transition.
C19_ChainedStates ==
    runner = "Trainer" =>
        /\ \A i \in 1..Len(memory) :
              LET t == memory[i]
              IN  /\ Len(t.state) = cfg.frame_stack
                  /\ Len(t.next_state) = cfg.frame_stack
                  /\ \A j \in 1..cfg.frame_stack :
                        /\ t.state[j][1] = EpisodeOf(t)
                        /\ t.next_state[j][1] = EpisodeOf(t)
                  /\ t.next_state[cfg.frame_stack][2] = t.state[cfg.frame_stack][2] + 1
                  /\ (i < Len(memory) /\ EpisodeOf(memory[i + 1]) = EpisodeOf(t)) =>
                        t.next_state = memory[i + 1].state
        /\ (last.op = "step" /\ last.recorded /\ memory # <<>>) =>
              EpisodeOf(memory[Len(memory)]) = episode

\* A memory holding the last transition of the first episode and the first
\* two of the second.
C19_Witness ==
    /\ runner = "Trainer"
    /\ cfg.frame_stack = 1
    /\ Len(memory) = 3
    /\ EpisodeOf(memory[1]) = 1
    /\ EpisodeOf(memory[2]) = 2
    /\ memory[2].next_state = memory[3].state
    /\ memory[1].next_state # memory[2].state

\* The first half of C20, which holds of the code: with
\* memory_size <= num_samples_pre nothing is ever learned, synchronized or
\* saved and eps keeps its initial value.
C20_SmallMemoryNeverLearns ==
    (runner = "Trainer" /\ cfg.memory_size <= cfg.num_samples_pre) =>
        /\ Len(memory) <= cfg.num_samples_pre
        /\ ~last.gate /\ ~last.learned /\ ~last.synced /\ ~last.saved
        /\ eps = InitEps
        /\ q_network = InitOnline
        /\ q_target = InitTarget

\* C20 as stated: with memory_size <= num_samples_pre no learning step, eps
\* update, synchronization or save ever happens; with
\* memory_size > num_samples_pre, once the episodes have recorded more than
\* num_samples_pre transitions the learning step has been performed.
C20_LearningEventually ==
    /\ C20_SmallMemoryNeverLearns
    /\ (runner = "Trainer" /\ cfg.memory_size > cfg.num_samples_pre
            /\ Len(memory) > cfg.num_samples_pre) =>
          q_network > InitOnline

\* The second half of C20 fails only where sample raised for lack of
\* entries (see C7).
C20_FailsOnlyBySampleError ==
    (runner = "Trainer" /\ cfg.memory_size > cfg.num_samples_pre
        /\ Len(memory) > cfg.num_samples_pre /\ q_network = InitOnline) =>
        (pc = "crashed" /\ error = "ValueError")

====
